---------------------------- MODULE Spec2Model ----------------------------
(***************************************************************************)
(* Expiration-date rules of tastytrade/utils.py.                           *)
(*                                                                         *)
(* A calendar date is its proleptic Gregorian ordinal (date.toordinal():   *)
(* 0001-01-01 is 1), so that adding a timedelta is integer addition and   *)
(* date.replace / date.month / date.weekday are conversions between the    *)
(* ordinal and (year, month, day).  The NYSE trading calendar is the set   *)
(* of weekdays on which the exchange is closed.                            *)
(***************************************************************************)
EXTENDS Integers, Sequences, FiniteSets

VARIABLES
    pc,           \* "idle" | "returned" | "raised" | "running"
    today,        \* today_in_new_york()
    fn,           \* the function called last ("none" before the first call)
    day,          \* its reference date: the argument, or today in New York
    holidays,     \* the weekdays the NYSE calendar has closed
    valid_range,  \* the rule's local valid_range (<<>> when it builds none)
    loops,        \* the weekday loops the call ran: <<[at, steps, found]>>
    result        \* the date returned (0: none)

vars == <<pc, today, fn, day, holidays, valid_range, loops, result>>

-----------------------------------------------------------------------------
(* Bounds of the model *)

\* The reference dates are the days of the years FirstYear .. LastYear.
FirstYear == 2024
LastYear == 2025
\* The longest run of consecutive calendar days the exchange is closed on.
MaxClosedRun == 2
\* A weekday loop is followed for at most LoopCap single-day steps.
LoopCap == 10

-----------------------------------------------------------------------------
(* datetime.date *)

IsLeap(y) == (y % 4 = 0) /\ ((y % 100 # 0) \/ (y % 400 = 0))

DaysBeforeYear(y) ==
    (y - 1) * 365 + ((y - 1) \div 4) - ((y - 1) \div 100) + ((y - 1) \div 400)

\* The days of the year before the first of month m
DaysBeforeMonth(y, m) ==
    <<0, 31, 59, 90, 120, 151, 181, 212, 243, 273, 304, 334>>[m]
    + (IF m > 2 /\ IsLeap(y) THEN 1 ELSE 0)

\* date(y, m, d).toordinal()
Ymd2Ord(y, m, d) == DaysBeforeYear(y) + DaysBeforeMonth(y, m) + d

\* date.fromordinal(o) as [year, month, day]: the day of the 400-year era
\* (doe), the year of the era (yoe), the day of the year counted from
\* 1 March (doy), the month counted from March (mp).
Civil(y, m, d) ==
    [year |-> y + (IF m <= 2 THEN 1 ELSE 0), month |-> m, day |-> d]
CivilFromMp(era, yoe, doy, mp) ==
    Civil(yoe + era * 400,
          IF mp < 10 THEN mp + 3 ELSE mp - 9,
          doy - ((153 * mp + 2) \div 5) + 1)
CivilFromDoy(era, yoe, doy) == CivilFromMp(era, yoe, doy, (5 * doy + 2) \div 153)
CivilFromYoe(era, doe, yoe) ==
    CivilFromDoy(era, yoe, doe - (365 * yoe + (yoe \div 4) - (yoe \div 100)))
CivilFromDoe(era, doe) ==
    CivilFromYoe(era, doe,
        (doe - (doe \div 1460) + (doe \div 36524) - (doe \div 146096)) \div 365)
Ord2Ymd(o) == CivilFromDoe((o + 305) \div 146097, (o + 305) % 146097)

YearOf(o) == Ord2Ymd(o).year
MonthOf(o) == Ord2Ymd(o).month
DayOf(o) == Ord2Ymd(o).day

\* date.weekday(): Monday is 0, Sunday is 6
Weekday(o) == (o + 6) % 7

\* date.replace(day=d)
CivilReplaceDay(c, d) == Ymd2Ord(c.year, c.month, d)
ReplaceDay(o, d) == CivilReplaceDay(Ord2Ymd(o), d)

\* timedelta(weeks=n), timedelta(days=n) in days
Weeks(n) == 7 * n
Days(n) == n

-----------------------------------------------------------------------------
(* The trading calendar *)

IsTradingDay(d, closed) == Weekday(d) < 5 /\ d \notin closed

\* NYSE.valid_days(first, last): the trading days of first .. last, ascending
valid_days(first, last, closed) ==
    SelectSeq([i \in 1 .. (last - first + 1) |-> first + i - 1],
              LAMBDA d : IsTradingDay(d, closed))

\* x in s, of a list s
InSeq(x, s) == \E i \in 1 .. Len(s) : s[i] = x

\* A list whose index before the start wraps around instead of raising.
PyIndexWrapping(s, i) ==
    IF Len(s) = 0 THEN [ok |-> FALSE, val |-> 0]
    ELSE [ok |-> TRUE, val |-> s[(i % Len(s)) + 1]]

\* s[i] of a Python list, i < 0: the index counts from the end, and an index
\* before the start raises IndexError (ok = FALSE).
PyIndex(s, i) ==
    IF i + Len(s) < 0 \/ i + Len(s) >= Len(s)
    THEN [ok |-> FALSE, val |-> 0]
    ELSE [ok |-> TRUE, val |-> s[i + Len(s) + 1]]

-----------------------------------------------------------------------------
(* The weekday loops:  while d.weekday() != wd: d += timedelta(days=delta) *)

\* The numbers of steps, up to LoopCap, after which the loop's test fails.
Exits(d, wd, delta) == {n \in 0 .. LoopCap : Weekday(d + n * delta) = wd}

Least(S) == CHOOSE n \in S : \A k \in S : n <= k

LoopEnd(d, delta, exits) ==
    IF exits = {}
    THEN [at |-> d + LoopCap * delta, steps |-> LoopCap, found |-> FALSE]
    ELSE [at |-> d + Least(exits) * delta, steps |-> Least(exits), found |-> TRUE]

\* The loop stepping a week at a time.
WhileNotWeekdayByWeek(d, wd, delta) ==
    LoopEnd(d, Weeks(delta), Exits(d, wd, Weeks(delta)))

\* Where the loop started at d ends, and after how many steps.
WhileNotWeekday(d, wd, delta) ==
    LoopEnd(d, Days(delta), Exits(d, wd, Days(delta)))

-----------------------------------------------------------------------------
(* Outcomes of a call *)

Returned(v, vr, ls) ==
    [status |-> "returned", value |-> v, valid_range |-> vr, loops |-> ls]
Raised(vr, ls) ==
    [status |-> "raised", value |-> 0, valid_range |-> vr, loops |-> ls]
\* A loop has not ended within LoopCap steps.
Running(vr, ls) ==
    [status |-> "running", value |-> 0, valid_range |-> vr, loops |-> ls]

\* return itr, at the end of the loop l that moved itr
ReturnAt(l, vr, before) ==
    IF l.found THEN Returned(l.at, vr, Append(before, l))
    ELSE Running(vr, Append(before, l))

\* return valid_range[i]
ReturnIndexed(e, vr) ==
    IF e.ok THEN Returned(e.val, vr, <<>>) ELSE Raised(vr, <<>>)

-----------------------------------------------------------------------------
(* The rules *)

FirstOfNextMonth(c) ==
    IF c.month = 12 THEN Ymd2Ord(c.year + 1, 1, 1)
    ELSE Ymd2Ord(c.year, c.month + 1, 1)

get_last_day_of_month(d) == FirstOfNextMonth(Ord2Ymd(d)) - Days(1)

\* NYSE.valid_days(first_day, last_day), first_day = last_day.replace(day=1)
RangeUpTo(last_day, closed) ==
    valid_days(ReplaceDay(last_day, 1), last_day, closed)

\* valid_range of the rules that read the whole month
MonthRange(d, closed) == RangeUpTo(get_last_day_of_month(d), closed)

\* The third-Friday rule starting one week into the month.
get_third_friday_week1(d) ==
    ReturnAt(WhileNotWeekday(ReplaceDay(d, 1) + Weeks(1), 4, 1), <<>>, <<>>)

get_third_friday(d) ==
    ReturnAt(WhileNotWeekday(ReplaceDay(d, 1) + Weeks(2), 4, 1), <<>>, <<>>)

\* The selector that takes the first candidate on a tie (<=).
TastyPickTieFirst(exp1, exp2, day45) ==
    IF day45 - exp1 <= exp2 - day45 THEN exp1 ELSE exp2
\* The selector with the comparison the other way round (>).
TastyPickFarther(exp1, exp2, day45) ==
    IF day45 - exp1 > exp2 - day45 THEN exp1 ELSE exp2

\* exp1 if day45 - exp1 < exp2 - day45 else exp2
TastyPick(exp1, exp2, day45) ==
    IF day45 - exp1 < exp2 - day45 THEN exp1 ELSE exp2

TastyOf(e1, e2, day45) ==
    IF e1.status = "returned" /\ e2.status = "returned"
    THEN Returned(TastyPick(e1.value, e2.value, day45), <<>>, e1.loops \o e2.loops)
    ELSE Running(<<>>, e1.loops \o e2.loops)

get_tasty_monthly(now) ==
    TastyOf(get_third_friday(now + Weeks(4)),
            get_third_friday(now + Weeks(8)),
            now + Days(45))

\* The second loop of the FX rule stepping forward to the Friday.
FxFridayForward(w) ==
    IF w.found THEN ReturnAt(WhileNotWeekday(w.at, 4, 1), <<>>, <<w>>)
    ELSE Running(<<>>, <<w>>)

\* The second loop of the FX rule, from the Wednesday the first one found
FxFriday(w) ==
    IF w.found THEN ReturnAt(WhileNotWeekday(w.at, 4, -1), <<>>, <<w>>)
    ELSE Running(<<>>, <<w>>)

\* The FX rule scanning forward from the first of the month.
get_future_fx_monthly_week0(d) ==
    FxFriday(WhileNotWeekday(ReplaceDay(d, 1), 2, 1))

get_future_fx_monthly(d) ==
    FxFriday(WhileNotWeekday(ReplaceDay(d, 1) + Weeks(1), 2, 1))

\* if itr in valid_range: return itr; return itr - timedelta(days=1)
TreasuryAt(l, vr) ==
    IF ~l.found THEN Running(vr, <<l>>)
    ELSE IF InSeq(l.at, vr) THEN Returned(l.at, vr, <<l>>)
    ELSE Returned(l.at - Days(1), vr, <<l>>)

TreasuryFrom(e, vr) ==
    IF e.ok THEN TreasuryAt(WhileNotWeekday(e.val - Days(1), 4, -1), vr)
    ELSE Raised(vr, <<>>)

TreasuryIn(vr) == TreasuryFrom(PyIndex(vr, -2), vr)

get_future_treasury_monthly(d, closed) == TreasuryIn(MonthRange(d, closed))

MetalFrom(e4, vr) ==
    IF ~e4.ok THEN Raised(vr, <<>>)
    ELSE IF Weekday(e4.val) = 4 \/ ~InSeq(e4.val + Days(1), vr)
         THEN ReturnIndexed(PyIndex(vr, -5), vr)
         ELSE Returned(e4.val, vr, <<>>)

MetalIn(vr) == MetalFrom(PyIndex(vr, -4), vr)

get_future_metal_monthly(d, closed) == MetalIn(MonthRange(d, closed))

GrainFrom(e, vr) ==
    IF e.ok THEN ReturnAt(WhileNotWeekday(e.val, 4, -1), vr, <<>>)
    ELSE Raised(vr, <<>>)

GrainIn(vr) == GrainFrom(PyIndex(vr, -3), vr)

get_future_grain_monthly(d, closed) == GrainIn(MonthRange(d, closed))

\* The oil rule reading the 6th-to-last entry.
OilInSixth(vr) == ReturnIndexed(PyIndex(vr, -6), vr)

OilIn(vr) == ReturnIndexed(PyIndex(vr, -7), vr)

get_future_oil_monthly(d, closed) == OilIn(RangeUpTo(ReplaceDay(d, 25), closed))

IndexIn(vr) == ReturnIndexed(PyIndex(vr, -1), vr)

get_future_index_monthly(d, closed) == IndexIn(MonthRange(d, closed))

-----------------------------------------------------------------------------
(* Inputs *)

\* today_in_new_york(): any day of the years modelled
RefDates == Ymd2Ord(FirstYear, 1, 1) .. Ymd2Ord(LastYear, 12, 31)

\* The day argument: None, or a date of the month four weeks ahead
NoDay == 0
DayArgs(now) == {NoDay, now + Weeks(4)}

\* day or today_in_new_york()
DayOrToday(arg, now) == IF arg = NoDay THEN now ELSE arg

WeekdaysIn(a, b) == {x \in a .. b : Weekday(x) < 5}

\* The closures of a month the calendar may hold: a run of at most
\* MaxClosedRun consecutive days (none, a holiday, a holiday and its bridge
\* day), or every day from some day of the month on (the calendar's data
\* ends there).
ClosuresIn(first, last) ==
    {WeekdaysIn(s, s + k - 1) : s \in first .. last, k \in 0 .. MaxClosedRun}
    \cup {WeekdaysIn(c, last) : c \in first .. last}

ClosuresUpTo(last) == ClosuresIn(ReplaceDay(last, 1), last)

Calendars(d) == ClosuresUpTo(get_last_day_of_month(d))

-----------------------------------------------------------------------------
(* The state machine: one call at a time *)

Init ==
    /\ pc = "idle"
    /\ today \in RefDates
    /\ fn = "none"
    /\ day = 0
    /\ holidays = {}
    /\ valid_range = <<>>
    /\ loops = <<>>
    /\ result = 0

Call(name, d, closed, out) ==
    /\ pc' = out.status
    /\ today' = today
    /\ fn' = name
    /\ day' = d
    /\ holidays' = closed
    /\ valid_range' = out.valid_range
    /\ loops' = out.loops
    /\ result' = out.value

ThirdFriday ==
    /\ pc = "idle"
    /\ \E arg \in DayArgs(today) :
       \E closed \in Calendars(DayOrToday(arg, today)) :
           Call("get_third_friday", DayOrToday(arg, today), closed,
                get_third_friday(DayOrToday(arg, today)))

TastyMonthly ==
    /\ pc = "idle"
    /\ Call("get_tasty_monthly", today, {}, get_tasty_monthly(today))

FxMonthly ==
    /\ pc = "idle"
    /\ \E arg \in DayArgs(today) :
       \E closed \in Calendars(DayOrToday(arg, today)) :
           Call("get_future_fx_monthly", DayOrToday(arg, today), closed,
                get_future_fx_monthly(DayOrToday(arg, today)))

TreasuryMonthly ==
    /\ pc = "idle"
    /\ \E arg \in DayArgs(today) :
       \E closed \in Calendars(DayOrToday(arg, today)) :
           Call("get_future_treasury_monthly", DayOrToday(arg, today), closed,
                get_future_treasury_monthly(DayOrToday(arg, today), closed))

MetalMonthly ==
    /\ pc = "idle"
    /\ \E arg \in DayArgs(today) :
       \E closed \in Calendars(DayOrToday(arg, today)) :
           Call("get_future_metal_monthly", DayOrToday(arg, today), closed,
                get_future_metal_monthly(DayOrToday(arg, today), closed))

GrainMonthly ==
    /\ pc = "idle"
    /\ \E arg \in DayArgs(today) :
       \E closed \in Calendars(DayOrToday(arg, today)) :
           Call("get_future_grain_monthly", DayOrToday(arg, today), closed,
                get_future_grain_monthly(DayOrToday(arg, today), closed))

OilMonthly ==
    /\ pc = "idle"
    /\ \E arg \in DayArgs(today) :
       \E closed \in Calendars(DayOrToday(arg, today)) :
           Call("get_future_oil_monthly", DayOrToday(arg, today), closed,
                get_future_oil_monthly(DayOrToday(arg, today), closed))

IndexMonthly ==
    /\ pc = "idle"
    /\ \E arg \in DayArgs(today) :
       \E closed \in Calendars(DayOrToday(arg, today)) :
           Call("get_future_index_monthly", DayOrToday(arg, today), closed,
                get_future_index_monthly(DayOrToday(arg, today), closed))

\* The caller takes the date or the error; the next call starts afresh.
Done ==
    /\ pc \in {"returned", "raised"}
    /\ pc' = "idle"
    /\ today' = today
    /\ fn' = "none"
    /\ day' = 0
    /\ holidays' = {}
    /\ valid_range' = <<>>
    /\ loops' = <<>>
    /\ result' = 0

Next ==
    \/ ThirdFriday
    \/ TastyMonthly
    \/ FxMonthly
    \/ TreasuryMonthly
    \/ MetalMonthly
    \/ GrainMonthly
    \/ OilMonthly
    \/ IndexMonthly
    \/ Done

Spec == Init /\ [][Next]_vars

-----------------------------------------------------------------------------
(* Vocabulary of the properties *)

Abs(x) == IF x < 0 THEN 0 - x ELSE x

SameMonth(a, b) == YearOf(a) = YearOf(b) /\ MonthOf(a) = MonthOf(b)

ReturnedBy(name) == pc = "returned" /\ fn = name

ProductRules ==
    {"get_third_friday", "get_future_fx_monthly", "get_future_treasury_monthly",
     "get_future_metal_monthly", "get_future_grain_monthly",
     "get_future_oil_monthly", "get_future_index_monthly"}

\* The n-th day of weekday wd of the month of d: the one with n - 1 such days
\* of the month before it.
NthWeekdayOfMonth(n, wd, d) ==
    CHOOSE x \in ReplaceDay(d, 1) .. get_last_day_of_month(d) :
        /\ Weekday(x) = wd
        /\ Cardinality({y \in ReplaceDay(d, 1) .. (x - 1) : Weekday(y) = wd}) = n - 1

\* The trading day that is n trading days before d: the n-th trading day met
\* going back from d - 1.
TradingDaysBefore(n, d, closed) ==
    CHOOSE x \in (d - 31) .. (d - 1) :
        /\ IsTradingDay(x, closed)
        /\ Cardinality({y \in x .. (d - 1) : IsTradingDay(y, closed)}) = n

\* The candidates of get_tasty_monthly and its target, from the current date
Exp1 == NthWeekdayOfMonth(3, 4, day + 28)
Exp2 == NthWeekdayOfMonth(3, 4, day + 56)
Day45 == day + 45

TastyTie == Exp1 # Exp2 /\ Abs(Exp1 - Day45) = Abs(Exp2 - Day45)

-----------------------------------------------------------------------------
(* The properties *)

\* C1: whatever product-family rule returns a date, that date is a trading day
\* of the calendar and lies in the month of the reference date (for the FX
\* rule: in that month or in the last week of the month before).
C1_ExpirationIsTradingDayOfMonth ==
    (pc = "returned" /\ fn \in ProductRules) =>
        /\ IsTradingDay(result, holidays)
        /\ \/ SameMonth(result, day)
           \/ /\ fn = "get_future_fx_monthly"
              /\ result < ReplaceDay(day, 1)
              /\ result >= ReplaceDay(day, 1) - 7

\* C2: get_third_friday returns a Friday of the reference date's month and
\* year whose day-of-month is in 15 .. 21, and exactly two Fridays of that
\* month come before it.
C2_ThirdFriday ==
    ReturnedBy("get_third_friday") =>
        /\ SameMonth(result, day)
        /\ Weekday(result) = 4
        /\ DayOf(result) \in 15 .. 21
        /\ Cardinality({x \in ReplaceDay(day, 1) .. (result - 1) : Weekday(x) = 4}) = 2

\* The reference date lies after the third Friday, which is the 21st.
C2_Witness ==
    /\ ReturnedBy("get_third_friday")
    /\ DayOf(result) = 21
    /\ day > result

\* C3: get_tasty_monthly returns the third Friday of the month of R + 4 weeks
\* or that of the month of R + 8 weeks, and the one it returns is no farther
\* (in absolute days) from R + 45 days than the other.
C3_TastyClosest ==
    ReturnedBy("get_tasty_monthly") =>
        /\ result \in {Exp1, Exp2}
        /\ \A other \in {Exp1, Exp2} :
               Abs(result - Day45) <= Abs(other - Day45)

\* The first candidate lies after the 45-day target and is returned.
C3_Witness ==
    /\ ReturnedBy("get_tasty_monthly")
    /\ Exp1 # Exp2
    /\ Exp1 > Day45
    /\ result = Exp1

\* C4 as claimed: when the two candidates are distinct and equally far from
\* R + 45 days, get_tasty_monthly returns the earlier one, exp1.
C4_TieReturnsEarlier ==
    (ReturnedBy("get_tasty_monthly") /\ TastyTie) => result = Exp1

\* C4 as amended: when the two candidates are distinct and equally far from
\* R + 45 days, get_tasty_monthly returns the later one, exp2.
C4_TieReturnsLater ==
    (ReturnedBy("get_tasty_monthly") /\ TastyTie) => result = Exp2

\* A call at which the candidates tie.
C4_Witness == ReturnedBy("get_tasty_monthly") /\ TastyTie

\* C5: the date get_future_treasury_monthly returns is an entry of the
\* month's trading-day sequence.
C5_TreasuryInSequence ==
    ReturnedBy("get_future_treasury_monthly") => InSeq(result, valid_range)

\* C6: get_future_oil_monthly returns the trading day 6 trading days before
\* the 25th when the 25th is a trading day, and 7 trading days before the
\* 25th when it is not.
C6_OilReferenceRule ==
    ReturnedBy("get_future_oil_monthly") =>
        result = TradingDaysBefore(
                     IF IsTradingDay(ReplaceDay(day, 25), holidays) THEN 6 ELSE 7,
                     ReplaceDay(day, 25), holidays)

\* The 25th is a weekday on which the exchange is closed.
C6_Witness ==
    /\ ReturnedBy("get_future_oil_monthly")
    /\ ReplaceDay(day, 25) \in holidays

\* C7: get_future_fx_monthly returns a Friday on or before the second
\* Wednesday of the month with no Friday between the two, and the Wednesday
\* its forward scan reaches is the second Wednesday of the month.
C7_FxFridayBeforeSecondWednesday ==
    ReturnedBy("get_future_fx_monthly") =>
        /\ loops[1].at = NthWeekdayOfMonth(2, 2, day)
        /\ Weekday(result) = 4
        /\ result <= NthWeekdayOfMonth(2, 2, day)
        /\ \A x \in (result + 1) .. NthWeekdayOfMonth(2, 2, day) : Weekday(x) # 4

\* The forward scan starts on a Wednesday: the month begins on one.
C7_Witness ==
    /\ ReturnedBy("get_future_fx_monthly")
    /\ loops[1].steps = 0
    /\ Weekday(ReplaceDay(day, 1)) = 2

\* C8 as claimed: for some reference date the FX rule returns a date of
\* another month than the reference date's (said of the program before a
\* call: some call it can make then returns such a date).
C8_FxSpillsForSomeDate ==
    pc = "idle" =>
        \E now \in RefDates : \E arg \in DayArgs(now) :
            ~SameMonth(get_future_fx_monthly(DayOrToday(arg, now)).value,
                       DayOrToday(arg, now))

\* C8 as amended: for every reference date the FX rule returns a date of the
\* reference date's own month, between its 3rd and its 9th.
C8_FxStaysInMonth ==
    ReturnedBy("get_future_fx_monthly") =>
        /\ SameMonth(result, day)
        /\ DayOf(result) \in 3 .. 9

\* The earliest the backward scan gets: the 3rd of the month.
C8_Witness ==
    /\ ReturnedBy("get_future_fx_monthly")
    /\ DayOf(result) = 3

\* C9: every weekday loop a call runs ends, after at most 7 single-day steps.
C9_LoopsEndWithinSevenSteps ==
    /\ pc # "running"
    /\ \A i \in 1 .. Len(loops) : loops[i].found /\ loops[i].steps <= 7

\* The backward scans at their longest: six steps, in the treasury and the
\* grain rule.
C9_Witness ==
    /\ pc = "returned"
    /\ fn \in {"get_future_treasury_monthly", "get_future_grain_monthly"}
    /\ loops[1].steps = 6

\* The from-end position at which a calendar rule stops for want of entries
\* (0: the sequence has all the entries the call reads)
MissingPosition(name, vr) ==
    CASE name = "get_future_treasury_monthly" -> IF Len(vr) < 2 THEN 2 ELSE 0
      [] name = "get_future_grain_monthly" -> IF Len(vr) < 3 THEN 3 ELSE 0
      [] name = "get_future_oil_monthly" -> IF Len(vr) < 7 THEN 7 ELSE 0
      [] name = "get_future_index_monthly" -> IF Len(vr) < 1 THEN 1 ELSE 0
      [] name = "get_future_metal_monthly" ->
            IF Len(vr) < 4 THEN 4
            ELSE IF Len(vr) = 4 /\ (Weekday(vr[1]) = 4 \/ ~InSeq(vr[1] + 1, vr))
                 THEN 5 ELSE 0
      [] OTHER -> 0

\* C10: a calendar rule whose trading-day sequence is shorter than the
\* from-end position it reads ends in an error and returns no date.
C10_ShortSequenceRaises ==
    (pc # "idle" /\ MissingPosition(fn, valid_range) # 0) =>
        pc = "raised" /\ result = 0

\* The metals rule takes the substitution on a sequence of four entries.
C10_Witness ==
    /\ pc = "raised"
    /\ fn = "get_future_metal_monthly"
    /\ Len(valid_range) = 4

=============================================================================
